---- MODULE Spec2Model ----
(***************************************************************************)
(* A model of app.py: a Flask application that proxies /ask (GET and POST) *)
(* to a remote Gradio prediction endpoint and exposes /health.             *)
(*                                                                         *)
(* The module-level code constructs the shared client once (Startup).      *)
(* Afterwards the WSGI host dispatches requests to handler threads; a      *)
(* handler blocks while the remote call is in flight, so a request is      *)
(* modelled as: the route's handler (AskSync / AskGet / HealthCheck),      *)
(* ProcessQuestion (the shared helper up to the remote call),              *)
(* PredictReturns / PredictRaises (the remote call's outcome and the code  *)
(* after it), Respond (the response leaves, the thread is free).           *)
(*                                                                         *)
(* Python values are records [type, val, items]; a dict is the set of its  *)
(* <<key, value>> pairs in items.  A remote result is a value decoded from *)
(* the remote service's JSON answer, so jsonify can always encode it.      *)
(***************************************************************************)
EXTENDS Integers, FiniteSets, Sequences, TLC

VARIABLES
    gradio_client,   \* the module-level client handle: "None" or "Client"
    main_pc,         \* "startup" while the module is being imported, then "serving"
    client_ctor,     \* environment: what Client(...) does at startup, "ok" or "raises"
    threads          \* handler thread -> the request it is handling

vars == <<gradio_client, main_pc, client_ctor, threads>>

\* Number of handler threads the host runs side by side.
NumThreads == 2

Threads == 1..NumThreads

-----------------------------------------------------------------------------
\* Python values

PyNone == [type |-> "NoneType", val |-> "None", items |-> {}]

PyStr(s) == [type |-> "str", val |-> s, items |-> {}]

PyInt(s) == [type |-> "int", val |-> s, items |-> {}]

PyList == [type |-> "list", val |-> "[]", items |-> {}]

PyDict(pairs) == [type |-> "dict", val |-> "", items |-> pairs]

\* dict.get(key): the value stored under key, None when the key is absent
dict_get(d, key) ==
    IF \E p \in d.items : p[1] = key
    THEN (CHOOSE p \in d.items : p[1] = key)[2]
    ELSE PyNone

\* Python truthiness of the client handle (`if gradio_client`, `if not gradio_client`)
truthy(client) == client # "None"

-----------------------------------------------------------------------------
\* Inputs

QuestionTexts == {"", "What is SHL?"}

Results == {PyStr("SHL is..."), PyList}

Errors == {"ConnectionError: connection refused", "TimeoutError: timed out"}

\* query strings of GET /ask: no parameter, or user_question=<text>
QueryArgs ==
    {PyDict({})} \cup {PyDict({<<"user_question", PyStr(q)>>}) : q \in QuestionTexts}

\* JSON documents a POST body can hold
JsonObjects ==
    {PyDict({}), PyDict({<<"question", PyStr("What is SHL?")>>}),
     PyDict({<<"user_question", PyNone>>})}
    \cup {PyDict({<<"user_question", PyStr(q)>>}) : q \in QuestionTexts}

JsonNonObjects == {PyList, PyInt("5"), PyStr("What is SHL?"), PyNone}

\* A request: is_json is request.is_json (the Content-Type names JSON), parses
\* says whether the body is a well-formed JSON document, data is that document.
Request(method, path, is_json, parses, data, args) ==
    [method |-> method, path |-> path, is_json |-> is_json, parses |-> parses,
     data |-> data, args |-> args]

PostRequests ==
    {Request("POST", "/ask", FALSE, FALSE, PyNone, PyDict({})),
     Request("POST", "/ask", TRUE, FALSE, PyNone, PyDict({}))}
    \cup {Request("POST", "/ask", TRUE, TRUE, d, PyDict({})) :
            d \in JsonObjects \cup JsonNonObjects}

GetRequests == {Request("GET", "/ask", FALSE, FALSE, PyNone, a) : a \in QueryArgs}

HealthRequests == {Request("GET", "/health", FALSE, FALSE, PyNone, PyDict({}))}

-----------------------------------------------------------------------------
\* Responses

NoResponse == [code |-> 0, mimetype |-> "", body |-> PyDict({})]

\* return jsonify(d), code
jsonify(d, code) == [code |-> code, mimetype |-> "application/json", body |-> d]

\* the framework's own error page for an exception that leaves a handler
error_page(code) == [code |-> code, mimetype |-> "text/html", body |-> PyDict({})]

error_envelope(message) ==
    PyDict({<<"status", PyStr("error")>>, <<"message", PyStr(message)>>})

MsgUnavailable == "Backend Gradio client not initialized or unavailable."

MsgNotJson == "Request body must be JSON for POST requests."

MsgMissingKey == "Missing 'user_question' key in JSON body for POST requests."

MsgMissingParam == "Missing 'user_question' query parameter for GET requests."

MsgPredictFailed ==
    "Failed to get prediction from underlying Gradio API. Please check logs or try again later."

-----------------------------------------------------------------------------
\* What a handler does: return a response, call _process_question, or raise

Return(resp) == [kind |-> "return", resp |-> resp, question |-> PyNone, exc |-> ""]

Call(question) ==
    [kind |-> "call", resp |-> NoResponse, question |-> question, exc |-> ""]

Raise(exc) == [kind |-> "raise", resp |-> NoResponse, question |-> PyNone, exc |-> exc]

\* Flask turns an exception that leaves a view into a response: an HTTPException
\* (BadRequest, raised by get_json on a malformed body) into its own status,
\* anything else into 500.
handle_exception(exc) ==
    IF exc = "BadRequest" THEN error_page(400) ELSE error_page(500)

\* ask_sync with the request validated before the availability check
ask_sync_validates_first(client, request) ==
    IF ~request.is_json
    THEN Return(jsonify(error_envelope(MsgNotJson), 400))
    ELSE IF ~request.parses
    THEN Raise("BadRequest")
    ELSE IF request.data.type # "dict"
    THEN Raise("AttributeError")
    ELSE LET user_question == dict_get(request.data, "user_question") IN
         IF user_question = PyNone
         THEN Return(jsonify(error_envelope(MsgMissingKey), 400))
         ELSE IF ~truthy(client)
         THEN Return(jsonify(error_envelope(MsgUnavailable), 503))
         ELSE Call(user_question)

\* POST /ask
ask_sync(client, request) ==
    IF ~truthy(client)
    THEN Return(jsonify(error_envelope(MsgUnavailable), 503))
    ELSE IF ~request.is_json
    THEN Return(jsonify(error_envelope(MsgNotJson), 400))
    ELSE IF ~request.parses
    THEN Raise("BadRequest")
    ELSE IF request.data.type # "dict"
    THEN Raise("AttributeError")
    ELSE LET user_question == dict_get(request.data, "user_question") IN
         IF user_question = PyNone
         THEN Return(jsonify(error_envelope(MsgMissingKey), 400))
         ELSE Call(user_question)

\* ask_get with `if not user_question` in place of `if user_question is None`
ask_get_rejects_empty(client, request) ==
    IF ~truthy(client)
    THEN Return(jsonify(error_envelope(MsgUnavailable), 503))
    ELSE LET user_question == dict_get(request.args, "user_question") IN
         IF user_question = PyNone \/ user_question = PyStr("")
         THEN Return(jsonify(error_envelope(MsgMissingParam), 400))
         ELSE Call(user_question)

\* GET /ask
ask_get(client, request) ==
    IF ~truthy(client)
    THEN Return(jsonify(error_envelope(MsgUnavailable), 503))
    ELSE LET user_question == dict_get(request.args, "user_question") IN
         IF user_question = PyNone
         THEN Return(jsonify(error_envelope(MsgMissingParam), 400))
         ELSE Call(user_question)

\* health_check that reports ok without looking at the handle
health_check_always_ok(client) ==
    jsonify(PyDict({<<"status", PyStr("ok")>>,
                    <<"gradio_client_status", PyStr("initialized")>>}), 200)

\* GET /health
health_check(client) ==
    IF truthy(client)
    THEN jsonify(PyDict({<<"status", PyStr("ok")>>,
                         <<"gradio_client_status", PyStr("initialized")>>}), 200)
    ELSE jsonify(PyDict({<<"status", PyStr("error")>>,
                         <<"gradio_client_status", PyStr("not_initialized")>>}), 503)

\* the success envelope with the result wrapped in another object
predict_succeeded_wrapped(result) ==
    jsonify(PyDict({<<"status", PyStr("success")>>,
                    <<"result", PyDict({<<"output", result>>})>>}), 200)

\* _process_question, the try block after predict returned result
predict_succeeded(result) ==
    jsonify(PyDict({<<"status", PyStr("success")>>, <<"result", result>>}), 200)

\* the failure envelope with the exception's text as its message
predict_failed_leaks(e) == jsonify(error_envelope(e), 502)

\* _process_question, the except block: e is the text of the exception
predict_failed(e) == jsonify(error_envelope(MsgPredictFailed), 502)

-----------------------------------------------------------------------------
\* Handler threads

NoOutcome == [kind |-> "none", value |-> PyNone]

Idle ==
    [pc |-> "idle", request |-> Request("", "", FALSE, FALSE, PyNone, PyDict({})),
     user_question |-> PyNone, predict_calls |-> 0, predict_arg |-> PyNone,
     outcome |-> NoOutcome, resp |-> NoResponse, after_failure |-> FALSE]

FailureCodes == {400, 500, 502}

Init ==
    /\ gradio_client = "None"
    /\ main_pc = "startup"
    /\ client_ctor \in {"ok", "raises"}
    /\ threads = [t \in Threads |-> Idle]

\* Module level: construct the client once, with the token when HF_TOKEN is
\* set and without it otherwise; on an exception leave the handle None.
Startup ==
    /\ main_pc = "startup"
    /\ \E hf_token \in BOOLEAN :
          gradio_client' = IF client_ctor = "raises" THEN "None"
                           ELSE IF hf_token THEN "Client" ELSE "Client"
    /\ main_pc' = "serving"
    /\ UNCHANGED <<client_ctor, threads>>

\* The host hands request r to the free thread t.
accept(th, r) ==
    [Idle EXCEPT !.request = r,
                 !.after_failure =
                     \E u \in Threads : /\ th[u].pc = "done"
                                        /\ th[u].resp.code \in FailureCodes]

\* The thread's next record after its route handler ran with outcome h.
after_handler(th, h) ==
    IF h.kind = "return" THEN [th EXCEPT !.pc = "done", !.resp = h.resp]
    ELSE IF h.kind = "raise"
    THEN [th EXCEPT !.pc = "done", !.resp = handle_exception(h.exc)]
    ELSE [th EXCEPT !.pc = "process", !.user_question = h.question]

\* POST /ask arrives and ask_sync runs, up to its return or its call of
\* _process_question.
AskSync(t, r) ==
    /\ main_pc = "serving"
    /\ threads[t].pc = "idle"
    /\ r.method = "POST" /\ r.path = "/ask"
    /\ threads' = [threads EXCEPT ![t] =
          after_handler(accept(threads, r), ask_sync(gradio_client, r))]
    /\ UNCHANGED <<gradio_client, main_pc, client_ctor>>

\* GET /ask arrives and ask_get runs.
AskGet(t, r) ==
    /\ main_pc = "serving"
    /\ threads[t].pc = "idle"
    /\ r.method = "GET" /\ r.path = "/ask"
    /\ threads' = [threads EXCEPT ![t] =
          after_handler(accept(threads, r), ask_get(gradio_client, r))]
    /\ UNCHANGED <<gradio_client, main_pc, client_ctor>>

\* HealthCheck that constructs the client again when the handle is None
HealthCheckReinit(t, r) ==
    /\ main_pc = "serving"
    /\ threads[t].pc = "idle"
    /\ r.method = "GET" /\ r.path = "/health"
    /\ gradio_client' = "Client"
    /\ threads' = [threads EXCEPT ![t] =
          [accept(threads, r) EXCEPT !.pc = "done",
                                     !.resp = health_check("Client")]]
    /\ UNCHANGED <<main_pc, client_ctor>>

\* GET /health arrives and health_check runs.
HealthCheck(t, r) ==
    /\ main_pc = "serving"
    /\ threads[t].pc = "idle"
    /\ r.method = "GET" /\ r.path = "/health"
    /\ threads' = [threads EXCEPT ![t] =
          [accept(threads, r) EXCEPT !.pc = "done",
                                     !.resp = health_check(gradio_client)]]
    /\ UNCHANGED <<gradio_client, main_pc, client_ctor>>

\* _process_question up to the remote call: the second availability check,
\* then gradio_client.predict(user_question=user_question, ...) is sent.
ProcessQuestion(t) ==
    /\ threads[t].pc = "process"
    /\ threads' = [threads EXCEPT ![t] =
          IF ~truthy(gradio_client)
          THEN [threads[t] EXCEPT !.pc = "done",
                   !.resp = jsonify(error_envelope(MsgUnavailable), 503)]
          ELSE [threads[t] EXCEPT !.pc = "predict",
                   !.predict_calls = @ + 1,
                   !.predict_arg = threads[t].user_question]]
    /\ UNCHANGED <<gradio_client, main_pc, client_ctor>>

\* The remote call returns result.
PredictReturns(t, result) ==
    /\ threads[t].pc = "predict"
    /\ threads' = [threads EXCEPT ![t] =
          [threads[t] EXCEPT !.pc = "done",
              !.outcome = [kind |-> "returned", value |-> result],
              !.resp = predict_succeeded(result)]]
    /\ UNCHANGED <<gradio_client, main_pc, client_ctor>>

\* PredictRaises that calls predict a second time before giving up
PredictRaisesRetries(t, e) ==
    /\ threads[t].pc = "predict"
    /\ threads' = [threads EXCEPT ![t] =
          IF threads[t].predict_calls < 2
          THEN [threads[t] EXCEPT !.predict_calls = @ + 1]
          ELSE [threads[t] EXCEPT !.pc = "done",
                   !.outcome = [kind |-> "raised", value |-> PyStr(e)],
                   !.resp = predict_failed(e)]]
    /\ UNCHANGED <<gradio_client, main_pc, client_ctor>>

\* PredictRaises that discards the shared client after a failed call
PredictRaisesDropsClient(t, e) ==
    /\ threads[t].pc = "predict"
    /\ gradio_client' = "None"
    /\ threads' = [threads EXCEPT ![t] =
          [threads[t] EXCEPT !.pc = "done",
              !.outcome = [kind |-> "raised", value |-> PyStr(e)],
              !.resp = predict_failed(e)]]
    /\ UNCHANGED <<main_pc, client_ctor>>

\* The remote call raises an exception whose text is e.
PredictRaises(t, e) ==
    /\ threads[t].pc = "predict"
    /\ threads' = [threads EXCEPT ![t] =
          [threads[t] EXCEPT !.pc = "done",
              !.outcome = [kind |-> "raised", value |-> PyStr(e)],
              !.resp = predict_failed(e)]]
    /\ UNCHANGED <<gradio_client, main_pc, client_ctor>>

\* The response is sent; the thread is free for the next request.
Respond(t) ==
    /\ threads[t].pc = "done"
    /\ threads' = [threads EXCEPT ![t] = Idle]
    /\ UNCHANGED <<gradio_client, main_pc, client_ctor>>

Next ==
    \/ Startup
    \/ \E t \in Threads, r \in PostRequests : AskSync(t, r)
    \/ \E t \in Threads, r \in GetRequests : AskGet(t, r)
    \/ \E t \in Threads, r \in HealthRequests : HealthCheck(t, r)
    \/ \E t \in Threads : ProcessQuestion(t)
    \/ \E t \in Threads, result \in Results : PredictReturns(t, result)
    \/ \E t \in Threads, e \in Errors : PredictRaises(t, e)
    \/ \E t \in Threads : Respond(t)

Spec == Init /\ [][Next]_vars

-----------------------------------------------------------------------------
\* Vocabulary of the properties

Done(t) == threads[t].pc = "done"

IsAsk(r) == r.path = "/ask"

IsHealth(r) == r.path = "/health"

Keys(d) == {p[1] : p \in d.items}

\* a JSON response {status: "error", message: <text>}
IsErrorEnvelope(resp) ==
    /\ resp.mimetype = "application/json"
    /\ Keys(resp.body) = {"status", "message"}
    /\ dict_get(resp.body, "status") = PyStr("error")
    /\ dict_get(resp.body, "message").type = "str"
    /\ dict_get(resp.body, "message").val # ""

\* the question a request carries, None when it carries none
QuestionOf(r) ==
    IF r.method = "POST"
    THEN IF r.is_json /\ r.parses /\ r.data.type = "dict"
         THEN dict_get(r.data, "user_question") ELSE PyNone
    ELSE dict_get(r.args, "user_question")

\* C4's malformed requests: a POST body that is not JSON (by its Content-Type
\* or by its content), a JSON object without user_question, a GET without
\* the query parameter
Malformed(r) ==
    /\ IsAsk(r)
    /\ \/ r.method = "POST" /\ (~r.is_json \/ ~r.parses)
       \/ r.method = "POST" /\ r.is_json /\ r.parses /\ r.data.type = "dict"
            /\ "user_question" \notin Keys(r.data)
       \/ r.method = "GET" /\ "user_question" \notin Keys(r.args)

\* C1: while the client handle is None, every /ask request (GET or POST, any
\* body) and every /health request is answered 503, /ask with the error
\* envelope; none is answered 400, 200 or 502.
C1_Unavailable503 ==
    \A t \in Threads :
        (main_pc = "serving" /\ ~truthy(gradio_client) /\ Done(t)) =>
            /\ threads[t].resp.code = 503
            /\ IsAsk(threads[t].request) => IsErrorEnvelope(threads[t].resp)

C1_Witness ==
    /\ ~truthy(gradio_client)
    /\ \E t, u \in Threads :
          /\ Done(t) /\ threads[t].request.method = "POST"
          /\ ~threads[t].request.is_json /\ threads[t].resp.code = 503
          /\ Done(u) /\ IsHealth(threads[u].request) /\ threads[u].resp.code = 503

\* C2: when the remote call returned R, the response is 200 with the JSON
\* envelope {status: "success", result: R}, R being the returned value itself.
C2_SuccessEnvelope ==
    \A t \in Threads :
        (Done(t) /\ threads[t].outcome.kind = "returned") =>
            /\ threads[t].resp.code = 200
            /\ threads[t].resp.mimetype = "application/json"
            /\ Keys(threads[t].resp.body) = {"status", "result"}
            /\ dict_get(threads[t].resp.body, "status") = PyStr("success")
            /\ dict_get(threads[t].resp.body, "result") = threads[t].outcome.value

C2_Witness ==
    \E t \in Threads :
        /\ Done(t) /\ truthy(gradio_client)
        /\ threads[t].user_question = PyStr("What is SHL?")
        /\ threads[t].outcome = [kind |-> "returned", value |-> PyStr("SHL is...")]
        /\ threads[t].resp.code = 200

\* C3: when the remote call raised, the response is 502 with the envelope
\* {status: "error", message: M}, M the same fixed text for every failure;
\* the exception's text is no part of the response.
C3_GenericFailure ==
    \A t \in Threads :
        (Done(t) /\ threads[t].outcome.kind = "raised") =>
            /\ threads[t].resp.code = 502
            /\ threads[t].resp.mimetype = "application/json"
            /\ threads[t].resp.body =
                   PyDict({<<"status", PyStr("error")>>,
                           <<"message", PyStr(MsgPredictFailed)>>})
            /\ \A p \in threads[t].resp.body.items : p[2] # threads[t].outcome.value

C3_Witness ==
    \E t, u \in Threads :
        /\ Done(t) /\ threads[t].outcome.kind = "raised"
        /\ Done(u) /\ threads[u].outcome.kind = "raised"
        /\ threads[t].outcome.value # threads[u].outcome.value
        /\ threads[t].resp = threads[u].resp
        /\ threads[t].resp.code = 502

\* C4: with the client initialised, a malformed /ask request (POST body not
\* JSON, JSON object without user_question, GET without the parameter) is
\* answered 400 with the error envelope.
C4_Malformed400Envelope ==
    \A t \in Threads :
        (Done(t) /\ truthy(gradio_client) /\ Malformed(threads[t].request)) =>
            /\ threads[t].resp.code = 400
            /\ IsErrorEnvelope(threads[t].resp)

\* C5: /health answers 200 {status: ok, gradio_client_status: initialized}
\* exactly when the client was constructed at startup and 503 {status: error,
\* gradio_client_status: not_initialized} otherwise; it never calls predict;
\* it answers 200 exactly when /ask does not answer 503.
C5_Health ==
    \A t \in Threads :
        (Done(t) /\ IsHealth(threads[t].request)) =>
            /\ threads[t].resp.mimetype = "application/json"
            /\ IF client_ctor = "ok"
               THEN /\ threads[t].resp.code = 200
                    /\ threads[t].resp.body =
                           PyDict({<<"status", PyStr("ok")>>,
                                   <<"gradio_client_status", PyStr("initialized")>>})
               ELSE /\ threads[t].resp.code = 503
                    /\ threads[t].resp.body =
                           PyDict({<<"status", PyStr("error")>>,
                                   <<"gradio_client_status", PyStr("not_initialized")>>})
            /\ threads[t].predict_calls = 0
            /\ threads[t].outcome.kind = "none"
            /\ \A u \in Threads :
                   (Done(u) /\ IsAsk(threads[u].request)) =>
                       (threads[t].resp.code = 200 <=> threads[u].resp.code # 503)

C5_Witness ==
    \E t, u \in Threads :
        /\ Done(t) /\ IsHealth(threads[t].request) /\ threads[t].resp.code = 200
        /\ Done(u) /\ IsAsk(threads[u].request) /\ threads[u].resp.code = 502

\* C6: with the client initialised, a request that carries a non-null
\* question (the empty string included) is not rejected, and the argument of
\* the remote call is the question as it came in the request.
C6_ForwardedUnchanged ==
    \A t \in Threads :
        (truthy(gradio_client) /\ threads[t].pc # "idle"
            /\ IsAsk(threads[t].request)
            /\ QuestionOf(threads[t].request) # PyNone) =>
            /\ threads[t].pc \in {"predict", "done"} =>
                   /\ threads[t].predict_arg = QuestionOf(threads[t].request)
                   /\ threads[t].predict_calls >= 1
            /\ Done(t) => threads[t].resp.code \in {200, 502}

C6_Witness ==
    \E t, u \in Threads :
        /\ Done(t) /\ threads[t].request.method = "GET"
        /\ QuestionOf(threads[t].request) = PyStr("")
        /\ threads[t].predict_arg = PyStr("")
        /\ threads[t].resp.code = 200
        /\ Done(u) /\ threads[u].request.method = "POST"
        /\ QuestionOf(threads[u].request) = PyStr("")
        /\ threads[u].predict_arg = PyStr("")

\* C7: with the client initialised, every POST /ask, whatever its body, ends
\* in 200, 400 or 502.
C7_PostOutcomes ==
    \A t \in Threads :
        (Done(t) /\ truthy(gradio_client)
            /\ threads[t].request.method = "POST" /\ IsAsk(threads[t].request)) =>
            threads[t].resp.code \in {200, 400, 502}

\* C8: a request calls predict at most once: once when its response is 200 or
\* 502, never when it is 400 or 503.
C8_AtMostOneCall ==
    \A t \in Threads :
        /\ threads[t].predict_calls <= 1
        /\ (Done(t) /\ IsAsk(threads[t].request)) =>
            /\ threads[t].resp.code \in {200, 502} => threads[t].predict_calls = 1
            /\ threads[t].resp.code \in {400, 503} => threads[t].predict_calls = 0

C8_Witness ==
    \E t, u \in Threads :
        /\ Done(t) /\ threads[t].resp.code = 502 /\ threads[t].predict_calls = 1
        /\ Done(u) /\ threads[u].resp.code = 400 /\ threads[u].predict_calls = 0

\* C9: the client handle is written at startup only: once the process
\* serves, it is the client when construction succeeded and None when it
\* failed, and no step of any request changes it.
C9_HandleReadOnly ==
    /\ [](main_pc = "serving" =>
            gradio_client = (IF client_ctor = "ok" THEN "Client" ELSE "None"))
    /\ [][main_pc = "serving" => gradio_client' = gradio_client]_vars

C9_Witness ==
    /\ gradio_client = "Client"
    /\ \E t, u \in Threads :
          /\ Done(t) /\ threads[t].resp.code = 502
          /\ Done(u) /\ threads[u].resp.code = 400 /\ threads[u].after_failure

\* the response the startup outcome, the request and the remote call's
\* outcome determine
Expected(ctor, r, outcome) ==
    IF ctor = "raises"
    THEN IF IsHealth(r)
         THEN jsonify(PyDict({<<"status", PyStr("error")>>,
                              <<"gradio_client_status", PyStr("not_initialized")>>}), 503)
         ELSE jsonify(error_envelope(MsgUnavailable), 503)
    ELSE IF IsHealth(r)
    THEN jsonify(PyDict({<<"status", PyStr("ok")>>,
                         <<"gradio_client_status", PyStr("initialized")>>}), 200)
    ELSE IF outcome.kind = "returned"
    THEN jsonify(PyDict({<<"status", PyStr("success")>>,
                         <<"result", outcome.value>>}), 200)
    ELSE IF outcome.kind = "raised"
    THEN jsonify(error_envelope(MsgPredictFailed), 502)
    ELSE IF r.method = "GET" THEN jsonify(error_envelope(MsgMissingParam), 400)
    ELSE IF ~r.is_json THEN jsonify(error_envelope(MsgNotJson), 400)
    ELSE IF ~r.parses THEN error_page(400)
    ELSE IF r.data.type # "dict" THEN error_page(500)
    ELSE jsonify(error_envelope(MsgMissingKey), 400)

\* C10: under every interleaving, a request's response is determined by the
\* startup outcome, its own input and its own remote call's outcome, also
\* when other requests failed before it or fail beside it; a remote call is
\* made exactly for the requests that carry a question; and a thread that
\* answered, with a failure or not, takes the next request.
C10_Independent ==
    \A t \in Threads :
        /\ Done(t) =>
            /\ threads[t].resp =
                   Expected(client_ctor, threads[t].request, threads[t].outcome)
            /\ threads[t].outcome.kind # "none" <=>
                   /\ client_ctor = "ok" /\ IsAsk(threads[t].request)
                   /\ QuestionOf(threads[t].request) # PyNone
            /\ ENABLED Respond(t)
        /\ (main_pc = "serving" /\ threads[t].pc = "idle") =>
               \A r \in HealthRequests : ENABLED HealthCheck(t, r)

C10_Witness ==
    \E t, u \in Threads :
        /\ Done(t) /\ threads[t].resp.code = 502
        /\ Done(u) /\ threads[u].resp.code = 200 /\ threads[u].after_failure
        /\ threads[u].request = threads[t].request

====
